---------------------------- MODULE Spec2Model ----------------------------
(***************************************************************************)
(* A model of the photobooth client.  The repository holds three Home      *)
(* components:                                                             *)
(*   "App"   - the Home component of src/client/src/App.tsx                *)
(*   "Cyber" - the Cyber-shot Home of src/client/src/pages/Home.tsx        *)
(*   "Y2K"   - the Y2K Home of src/client/src/pages/Home.tsx               *)
(* The variable impl names the component a behaviour is about.             *)
(*                                                                         *)
(* The module holds several specifications over one set of variables:      *)
(*   SpecCapture - the camera step of the Cyber-shot Home                  *)
(*   SpecRender  - the render passes of the App and Cyber-shot Homes       *)
(*   SpecCrop    - the source rectangle of one photo draw                  *)
(*   SpecSticker - the sticker handlers of the App and Cyber-shot Homes    *)
(*   SpecPlace   - the placement of one sticker draw                       *)
(*   SpecSession - render passes, drags and reset of one session           *)
(*   SpecAppCapture - the camera step of the App Home                      *)
(*   SpecLayer   - the sticker handlers followed by the film strip pass    *)
(*   SpecRerun   - generateFilmStrip called again on unchanged inputs      *)
(*   SpecRetro   - applyRetroFilter of App.tsx on one pixel                *)
(*   SpecPair    - generatePreview and generateFilmStrip on the same inputs *)
(*   SpecY2K     - camera, captures and the film strip effect of the Y2K Home *)
(* Each leaves the variables of the others at their initial values.        *)
(***************************************************************************)
EXTENDS Integers, Sequences, FiniteSets, TLC

VARIABLES
    impl,               \* which Home component
    step,               \* useState step (Y2K Home: showCamera, "camera" when true)
    layout,             \* useState layout ("null" | "single" | "strip")
    photos,             \* useState photos: sequence of captured photos
    stream,             \* useState stream: "none" or the facing mode of the live stream
    facingMode,         \* useState facingMode
    cameraError,        \* useState cameraError (TRUE when a message is set)
    countdown,          \* useState countdown (null is 0 in the Cyber-shot Home, -1 in App)
    cameraFilter,       \* useState cameraFilter
    isAutoCapturing,    \* useState isAutoCapturing
    currentPhotoIndex,  \* useState currentPhotoIndex
    getUserMediaCalls,  \* startCamera calls suspended at await getUserMedia
    captureSequences,   \* captureSequence() calls suspended at a timer
    stepTimers,         \* pending setTimeout(() => setStep("stickers"), 500) (Cyber-shot Home)
                        \* or setTimeout(() => setCountdown(3), 800) (App)
    used,               \* how often each bounded operation has run so far
    stickers,           \* useState stickers
    footerText,         \* useState footerText
    passes,             \* the calls of generatePreview / generateFilmStrip so far
    canvas,             \* the canvases behind filmStripCanvasRef and previewCanvasRef
    previewDataUrl,     \* useState previewDataUrl
    filmStripDataUrl,   \* useState filmStripDataUrl
    filmStripReady,     \* useState filmStripReady
    selectedSticker,    \* useState selectedSticker: the palette entry picked, or "null"
    selectedPlacedSticker, \* useState selectedPlacedSticker: a sticker id, or 0 for null
    dragging,           \* the mousemove / mouseup listeners on document, if any
    clock,              \* Date.now()
    source,             \* the bitmap a photo draw reads from
    drawn,              \* the arguments of the last drawImage of a photo
    pixel,              \* a pixel of the ImageData that applyRetroFilter reads
    filtered            \* that pixel after applyRetroFilter, or the stage it has reached

captureVars == <<step, layout, photos, stream, facingMode, cameraError, countdown,
                 cameraFilter, isAutoCapturing, currentPhotoIndex,
                 getUserMediaCalls, captureSequences, stepTimers, used>>

renderVars == <<stickers, footerText, passes, canvas, previewDataUrl,
                filmStripDataUrl, filmStripReady>>

stickerVars == <<selectedSticker, selectedPlacedSticker, dragging, clock>>

cropVars == <<source, drawn>>

filterVars == <<pixel, filtered>>

vars == <<impl, captureVars, renderVars, stickerVars, cropVars, filterVars>>

\* what the camera step leaves alone
nonCapture == <<impl, renderVars, stickerVars, cropVars, filterVars>>

\* what the edit and final steps leave alone
cameraVars == <<stream, facingMode, cameraError, countdown, cameraFilter,
                isAutoCapturing, currentPhotoIndex, getUserMediaCalls,
                captureSequences, stepTimers, used>>

nonRender == <<impl, cameraVars, stickerVars, cropVars, filterVars>>

-----------------------------------------------------------------------------
(* Bounds of the model *)

\* startCamera() calls in one behaviour
MaxCameraCalls == 2
\* captureSequence() calls in one behaviour
MaxSequences == 2
\* presses of the single-photo shutter in one behaviour
MaxStepTimers == 2
\* drags of a placed sticker in one behaviour
MaxDrags == 1
\* the last value of Date.now()
MaxClock == 2

Use(what) == [used EXCEPT ![what] = @ + 1]

-----------------------------------------------------------------------------
(* The canvas: its size and the draw operations that reached it since it   *)
(* was last cleared                                                        *)

CanvasNames == {"filmStrip", "preview"}

\* a canvas element before any pass: 300 x 150, nothing drawn
BlankCanvas == [width |-> 300, height |-> 150, ops |-> <<>>]

\* useState("") of the two data URLs
EmptyUrl == [width |-> 0, height |-> 0, ops |-> <<>>]

\* a StickerPosition; scale is kept in tenths (10 stands for 1.0), x and y are
\* percent of the preview container (App) or pixels of the preview (Cyber)
NewSticker(id, type, at, rotation) ==
    [id |-> id, type |-> type, x |-> at[1], y |-> at[2], rotation |-> rotation, scale |-> 10]

\* no listener on document
NoDrag == [id |-> 0, stickers |-> <<>>]

NoSource == [w |-> 0, h |-> 0]

NoDraw == [fn |-> "none"]

\* the camera state of a freshly mounted component
CameraIdle ==
    /\ stream = "none"
    /\ facingMode = "user"
    /\ cameraError = FALSE
    /\ countdown = 0
    /\ cameraFilter = "original"
    /\ isAutoCapturing = FALSE
    /\ currentPhotoIndex = 0
    /\ getUserMediaCalls = <<>>
    /\ captureSequences = <<>>
    /\ stepTimers = 0
    /\ used = [camera |-> 0, sequence |-> 0, shutter |-> 0, drag |-> 0]

\* the sticker state of a freshly mounted component
StickerIdle ==
    /\ selectedSticker = "null"
    /\ selectedPlacedSticker = 0
    /\ dragging = NoDrag
    /\ clock = 0

\* no photo draw has happened
CropIdle ==
    /\ source = NoSource
    /\ drawn = NoDraw

NoPixel == [r |-> 0, g |-> 0, b |-> 0]

\* applyRetroFilter has not run
FilterIdle ==
    /\ pixel = NoPixel
    /\ filtered = [stage |-> "none"]

-----------------------------------------------------------------------------
(* Cyber-shot Home: camera step *)

\* the number of captures one shutter press of the Cyber-shot Home asks for
PhotosPerPress(l) == IF l = "single" THEN 1 ELSE 4

OtherFacing(f) == IF f = "user" THEN "environment" ELSE "user"

OtherFilter(f) == IF f = "original" THEN "retro" ELSE "original"

\* <video ref={videoRef}> is rendered only in the camera step and only with a stream
VideoMounted == step = "camera" /\ stream # "none"

\* capturePhoto(): returns early without a video element, else appends one photo
CapturePhoto(ps, mounted, retro) ==
    IF ~mounted THEN ps ELSE Append(ps, [retro |-> retro])

\* startCamera(): clears the error and suspends at getUserMedia
StartCamera ==
    /\ cameraError' = FALSE
    /\ getUserMediaCalls' = Append(getUserMediaCalls, facingMode)

\* a new captureSequence(): runs up to its first timer
NewSequence(retro) == [i |-> 0, j |-> 3, pc |-> "countdown", retro |-> retro]

RemoveAt(s, k) == [n \in 1..(Len(s) - 1) |-> IF n < k THEN s[n] ELSE s[n + 1]]

CaptureInit ==
    /\ impl = "Cyber"
    /\ step = "layout"
    /\ layout = "null"
    /\ photos = <<>>
    /\ CameraIdle
    /\ stickers = <<>>
    /\ footerText = ""
    /\ passes = <<>>
    /\ canvas = [c \in CanvasNames |-> BlankCanvas]
    /\ previewDataUrl = EmptyUrl
    /\ filmStripDataUrl = EmptyUrl
    /\ filmStripReady = FALSE
    /\ StickerIdle
    /\ CropIdle
    /\ FilterIdle

\* selectLayout(type), then the effect on [step] that starts the camera
SelectLayout(type) ==
    /\ step = "layout"
    /\ used.camera < MaxCameraCalls
    /\ used' = Use("camera")
    /\ layout' = type
    /\ step' = "camera"
    /\ StartCamera
    /\ UNCHANGED <<nonCapture, photos, stream, facingMode, countdown, cameraFilter,
                   isAutoCapturing, currentPhotoIndex, captureSequences, stepTimers>>

\* getUserMedia resolves: setStream(mediaStream)
GetUserMediaResolve ==
    /\ getUserMediaCalls # <<>>
    /\ stream' = Head(getUserMediaCalls)
    /\ getUserMediaCalls' = Tail(getUserMediaCalls)
    /\ UNCHANGED <<nonCapture, step, layout, photos, facingMode, cameraError, countdown,
                   cameraFilter, isAutoCapturing, currentPhotoIndex,
                   captureSequences, stepTimers, used>>

\* getUserMedia rejects: setCameraError(...)
GetUserMediaReject ==
    /\ getUserMediaCalls # <<>>
    /\ cameraError' = TRUE
    /\ getUserMediaCalls' = Tail(getUserMediaCalls)
    /\ UNCHANGED <<nonCapture, step, layout, photos, stream, facingMode, countdown,
                   cameraFilter, isAutoCapturing, currentPhotoIndex,
                   captureSequences, stepTimers, used>>

\* the RETRY button, shown in the camera step with an error and no stream
Retry ==
    /\ step = "camera" /\ stream = "none" /\ cameraError
    /\ used.camera < MaxCameraCalls
    /\ used' = Use("camera")
    /\ StartCamera
    /\ UNCHANGED <<nonCapture, step, layout, photos, stream, facingMode, countdown,
                   cameraFilter, isAutoCapturing, currentPhotoIndex,
                   captureSequences, stepTimers>>

\* toggleCamera(): stopCamera(), then the other facing mode; the effect that
\* starts the camera depends on [step] alone and does not run
ToggleCamera ==
    /\ step = "camera" /\ stream # "none"
    /\ stream' = "none"
    /\ facingMode' = OtherFacing(facingMode)
    /\ UNCHANGED <<nonCapture, step, layout, photos, cameraError, countdown, cameraFilter,
                   isAutoCapturing, currentPhotoIndex, getUserMediaCalls,
                   captureSequences, stepTimers, used>>

\* toggleFilter(): capturePhoto is rebuilt, so the auto-capture effect runs again
\* and, with isAutoCapturing still set, starts another captureSequence()
ToggleFilter ==
    /\ step = "camera"
    /\ cameraFilter' = OtherFilter(cameraFilter)
    /\ IF isAutoCapturing /\ layout = "strip"
       THEN /\ used.sequence < MaxSequences
            /\ used' = Use("sequence")
            /\ captureSequences' =
                   Append(captureSequences, NewSequence(cameraFilter' = "retro"))
            /\ currentPhotoIndex' = 0
            /\ countdown' = 3
       ELSE UNCHANGED <<captureSequences, currentPhotoIndex, countdown, used>>
    /\ UNCHANGED <<nonCapture, step, layout, photos, stream, facingMode, cameraError,
                   isAutoCapturing, getUserMediaCalls, stepTimers>>

\* the shutter button with layout strip: setIsAutoCapturing(true); the effect
\* runs when the flag changed
ShutterStrip ==
    /\ step = "camera" /\ stream # "none" /\ layout = "strip"
    /\ isAutoCapturing' = TRUE
    /\ IF ~isAutoCapturing
       THEN /\ used.sequence < MaxSequences
            /\ used' = Use("sequence")
            /\ captureSequences' =
                   Append(captureSequences, NewSequence(cameraFilter = "retro"))
            /\ currentPhotoIndex' = 0
            /\ countdown' = 3
       ELSE UNCHANGED <<captureSequences, currentPhotoIndex, countdown, used>>
    /\ UNCHANGED <<nonCapture, step, layout, photos, stream, facingMode, cameraError,
                   cameraFilter, getUserMediaCalls, stepTimers>>

\* the shutter button otherwise: capturePhoto() and a 500 ms timer to the edit step
ShutterSingle ==
    /\ step = "camera" /\ stream # "none" /\ layout # "strip"
    /\ used.shutter < MaxStepTimers
    /\ used' = Use("shutter")
    /\ photos' = CapturePhoto(photos, VideoMounted, cameraFilter = "retro")
    /\ stepTimers' = stepTimers + 1
    /\ UNCHANGED <<nonCapture, step, layout, stream, facingMode, cameraError, countdown,
                   cameraFilter, isAutoCapturing, currentPhotoIndex,
                   getUserMediaCalls, captureSequences>>

\* setTimeout(() => setStep("stickers"), 500) fires
StepTimerFire ==
    /\ stepTimers > 0
    /\ stepTimers' = stepTimers - 1
    /\ step' = "stickers"
    /\ UNCHANGED <<nonCapture, layout, photos, stream, facingMode, cameraError, countdown,
                   cameraFilter, isAutoCapturing, currentPhotoIndex,
                   getUserMediaCalls, captureSequences, used>>

\* a 1000 ms countdown timer of sequence k fires
CountdownFire(k) ==
    /\ k \in 1..Len(captureSequences)
    /\ captureSequences[k].pc = "countdown"
    /\ LET s == captureSequences[k] IN
       IF s.j > 1
       THEN /\ countdown' = s.j - 1
            /\ captureSequences' = [captureSequences EXCEPT ![k].j = s.j - 1]
            /\ UNCHANGED photos
       ELSE /\ countdown' = 0
            /\ photos' = CapturePhoto(photos, VideoMounted, s.retro)
            /\ captureSequences' =
                   [captureSequences EXCEPT ![k].j = 0, ![k].pc = "pause"]
    /\ UNCHANGED <<nonCapture, step, layout, stream, facingMode, cameraError, cameraFilter,
                   isAutoCapturing, currentPhotoIndex, getUserMediaCalls, stepTimers, used>>

\* the 500 ms pause after a capture of sequence k ends: the next round, or the
\* end of the sequence
PauseFire(k) ==
    /\ k \in 1..Len(captureSequences)
    /\ captureSequences[k].pc = "pause"
    /\ LET s == captureSequences[k] IN
       IF s.i + 1 < PhotosPerPress("strip")
       THEN /\ captureSequences' =
                   [captureSequences EXCEPT
                       ![k].i = s.i + 1, ![k].j = 3, ![k].pc = "countdown"]
            /\ currentPhotoIndex' = s.i + 1
            /\ countdown' = 3
            /\ UNCHANGED <<isAutoCapturing, step>>
       ELSE /\ captureSequences' = RemoveAt(captureSequences, k)
            /\ isAutoCapturing' = FALSE
            /\ currentPhotoIndex' = 0
            /\ step' = "stickers"
            /\ UNCHANGED countdown
    /\ UNCHANGED <<nonCapture, layout, photos, stream, facingMode, cameraError,
                   cameraFilter, getUserMediaCalls, stepTimers, used>>

\* moveToFinal(): the step only; the render pass is SpecRender's
MoveToFinalStep ==
    /\ step = "stickers"
    /\ step' = "final"
    /\ UNCHANGED <<nonCapture, layout, photos, stream, facingMode, cameraError, countdown,
                   cameraFilter, isAutoCapturing, currentPhotoIndex,
                   getUserMediaCalls, captureSequences, stepTimers, used>>

\* reset(), offered in the edit and final steps
ResetSession ==
    /\ step \in {"stickers", "final"}
    /\ layout' = "null"
    /\ photos' = <<>>
    /\ step' = "layout"
    /\ cameraError' = FALSE
    /\ cameraFilter' = "original"
    /\ isAutoCapturing' = FALSE
    /\ currentPhotoIndex' = 0
    /\ countdown' = 0
    /\ stream' = "none"
    /\ stickers' = <<>>
    /\ footerText' = ""
    /\ filmStripReady' = FALSE
    /\ filmStripDataUrl' = EmptyUrl
    /\ previewDataUrl' = EmptyUrl
    /\ selectedSticker' = "null"
    /\ selectedPlacedSticker' = 0
    /\ UNCHANGED <<impl, passes, canvas, facingMode, getUserMediaCalls,
                   captureSequences, stepTimers, used, dragging, clock, cropVars, filterVars>>

CaptureNext ==
    \/ \E type \in {"single", "strip"} : SelectLayout(type)
    \/ GetUserMediaResolve
    \/ GetUserMediaReject
    \/ Retry
    \/ ToggleCamera
    \/ ToggleFilter
    \/ ShutterStrip
    \/ ShutterSingle
    \/ StepTimerFire
    \/ \E k \in 1..MaxSequences : CountdownFire(k)
    \/ \E k \in 1..MaxSequences : PauseFire(k)
    \/ MoveToFinalStep
    \/ ResetSession

SpecCapture == CaptureInit /\ [][CaptureNext]_vars

-----------------------------------------------------------------------------
(* Render passes: generatePreview and generateFilmStrip of the App and     *)
(* Cyber-shot Homes.  A pass runs from its call to its first await, and    *)
(* then from one image load to the next.                                   *)

\* render passes in one behaviour
MaxPasses == 2
\* stickers placed in one behaviour
MaxStickers == 2
\* photos a single-layout session of the Cyber-shot Home is rendered with
MaxSinglePhotos == 2

stripWidth == 600
photoWidth == 560
margin == 20
headerHeight == 100
footerHeight == 100
spacing == 10

\* const photoHeight = isSingle ? 560 : 400
photoHeight(l) == IF l = "single" THEN 560 ELSE 400

\* const photoSectionHeight = isSingle ? photoHeight : n * (photoHeight + spacing) - spacing
photoSectionHeight(l, n) ==
    IF l = "single" THEN photoHeight(l) ELSE n * (photoHeight(l) + spacing) - spacing

\* const totalHeight = headerHeight + photoSectionHeight + footerHeight + margin * 2
totalHeight(l, n) == headerHeight + photoSectionHeight(l, n) + footerHeight + margin * 2

\* the guard left out
EarlyReturnNever(n) == FALSE

\* if (photos.length === 0 || !canvasRef.current) return;  the canvases are
\* rendered in every step, so the ref is never null
EarlyReturn(n) == n = 0

\* the canvas a pass draws on
CanvasOf(im, fn) ==
    IF im = "Cyber" /\ fn = "generatePreview" THEN "preview" ELSE "filmStrip"

Op(p, layer, idx) == [pass |-> p, layer |-> layer, idx |-> idx]

\* canvas.width = ...; canvas.height = ... clears the canvas; then the white
\* background, the grain and the header
OpeningOps(p) == <<Op(p, "background", 0), Op(p, "grain", 0), Op(p, "header", 0)>>

\* one photo block once its image has loaded: the matte, the photo and (App) its grain
PhotoOps(im, p, i) ==
    IF im = "App"
    THEN <<Op(p, "matte", i), Op(p, "photo", i), Op(p, "photoGrain", i)>>
    ELSE <<Op(p, "matte", i), Op(p, "photo", i)>>

\* drawImage throws InvalidStateError for an image whose load failed (its
\* request is in the broken state); the matte is filled before that
BrokenPhotoOps(p, i) == <<Op(p, "matte", i)>>

FooterOps(p) == <<Op(p, "footer", 0)>>

\* what a pass draws between its last photo and its first sticker
OpsAfterPhotos(im, fn, p) ==
    IF fn = "generatePreview" \/ im = "Cyber" THEN FooterOps(p) ELSE <<>>

\* a film strip that ends with its last sticker
OpsAfterStickersNone(im, p) == <<>>
\* what a pass draws after its last sticker
OpsAfterStickers(im, p) == IF im = "App" THEN FooterOps(p) ELSE <<>>

\* a pass that reads no sticker
StickersOfNone(fn, st) == <<>>

\* the stickers a pass draws: generatePreview draws none
StickersOf(fn, st) == IF fn = "generateFilmStrip" THEN st ELSE <<>>

Draw(cv, ops) == [cv EXCEPT !.ops = @ \o ops]

\* a call of fn, up to its first await
NewPass(fn) ==
    LET n == Len(photos)
        p == Len(passes) + 1
    IN  [fn |-> fn, canvas |-> CanvasOf(impl, fn), n |-> n, layout |-> layout,
         stickers |-> StickersOf(fn, stickers), text |-> footerText,
         height |-> IF EarlyReturn(n) THEN 0 ELSE totalHeight(layout, n),
         i |-> 1, failed |-> "none",
         pc |-> IF EarlyReturn(n) THEN "returned"
                ELSE IF n = 0 THEN "rejected"   \* photos[0].timestamp of no photo
                ELSE "photo"]

\* a call of fn that leaves the size and the content of the canvas as they were
StartPassNoClear(fn) ==
    LET np == NewPass(fn)
        p == Len(passes) + 1
    IN  /\ passes' = Append(passes, np)
        /\ canvas' = IF np.pc = "returned" THEN canvas
                     ELSE [canvas EXCEPT ![np.canvas] = Draw(@, OpeningOps(p))]
\* a call of fn, up to its first await: the pass, and the canvas it resized
StartPass(fn) ==
    LET np == NewPass(fn)
        p == Len(passes) + 1
    IN  /\ passes' = Append(passes, np)
        /\ canvas' = IF np.pc = "returned" THEN canvas
                     ELSE [canvas EXCEPT ![np.canvas] =
                              [width |-> stripWidth, height |-> np.height,
                               ops |-> OpeningOps(p)]]

\* canvas.toDataURL() at the end of a pass, and the state it is stored in
Publish(fn, cv) ==
    IF fn = "generatePreview"
    THEN /\ previewDataUrl' = cv
         /\ UNCHANGED <<filmStripDataUrl, filmStripReady>>
    ELSE /\ filmStripDataUrl' = cv
         /\ filmStripReady' = TRUE
         /\ UNCHANGED previewDataUrl

NoPublish == UNCHANGED <<previewDataUrl, filmStripDataUrl, filmStripReady>>

\* the sessions the edit step can be entered with
RenderInputs ==
    {<<"App", "single", 1>>, <<"App", "strip", 4>>}
        \cup {<<"Cyber", "single", n>> : n \in 1..MaxSinglePhotos}
        \cup {<<"Cyber", "strip", n>> : n \in 0..4}

\* the edit step has just been entered; the effect on [step, photos, ...] has
\* called generatePreview when there is a photo
EditSession(in) ==
    /\ impl = in[1]
    /\ layout = in[2]
    /\ photos = [k \in 1..in[3] |-> [retro |-> FALSE]]
    /\ passes = IF in[3] = 0 THEN <<>>
                ELSE <<[fn |-> "generatePreview",
                        canvas |-> CanvasOf(in[1], "generatePreview"),
                        n |-> in[3], layout |-> in[2], stickers |-> <<>>,
                        text |-> "", height |-> totalHeight(in[2], in[3]),
                        i |-> 1, failed |-> "none", pc |-> "photo"]>>
    /\ canvas = [c \in CanvasNames |->
                    IF in[3] > 0 /\ c = CanvasOf(in[1], "generatePreview")
                    THEN [width |-> stripWidth,
                          height |-> totalHeight(in[2], in[3]),
                          ops |-> OpeningOps(1)]
                    ELSE BlankCanvas]
    /\ step = "stickers"
    /\ stickers = <<>>
    /\ footerText = ""
    /\ previewDataUrl = EmptyUrl
    /\ filmStripDataUrl = EmptyUrl
    /\ filmStripReady = FALSE

\* the sessions of RenderInputs
RenderInit ==
    /\ \E in \in RenderInputs : EditSession(in)
    /\ CameraIdle
    /\ StickerIdle
    /\ CropIdle
    /\ FilterIdle

\* the footer text input: the preview effect runs again
EditFooterText(text) ==
    /\ step = "stickers"
    /\ text # footerText
    /\ footerText' = text
    /\ IF Len(photos) > 0
       THEN /\ Len(passes) < MaxPasses
            /\ LET np == [NewPass("generatePreview") EXCEPT !.text = text]
                   p == Len(passes) + 1
               IN  /\ passes' = Append(passes, np)
                   /\ canvas' = [canvas EXCEPT ![np.canvas] =
                                    [width |-> stripWidth, height |-> np.height,
                                     ops |-> OpeningOps(p)]]
       ELSE UNCHANGED <<passes, canvas>>
    /\ NoPublish
    /\ UNCHANGED <<nonRender, step, layout, photos, stickers>>

\* a sticker is picked in the palette and placed: App on the preview container,
\* Cyber on the preview image
AddStickerToStrip ==
    /\ step = "stickers"
    /\ impl = "Cyber" => previewDataUrl # EmptyUrl
    /\ Len(stickers) < MaxStickers
    /\ stickers' = Append(stickers, NewSticker(Len(stickers) + 1, "star",
                                               IF impl = "App" THEN <<50, 50>> ELSE <<100, 100>>, 0))
    /\ NoPublish
    /\ UNCHANGED <<nonRender, step, layout, photos, footerText, passes, canvas>>

\* moveToFinal(): setStep("final"); generateFilmStrip()
MoveToFinal ==
    /\ step = "stickers"
    /\ Len(passes) < MaxPasses
    /\ step' = "final"
    /\ StartPass("generateFilmStrip")
    /\ NoPublish
    /\ UNCHANGED <<nonRender, layout, photos, stickers, footerText>>

\* the end of a pass: its last draws, then the data URL
Finish(p, ops) ==
    LET q == passes[p]
        cv == Draw(canvas[q.canvas], ops)
    IN  /\ canvas' = [canvas EXCEPT ![q.canvas] = cv]
        /\ passes' = [passes EXCEPT ![p].pc = "done"]
        /\ Publish(q.fn, cv)

\* the image of photo i of pass p has loaded (ok) or failed
PhotoLoaded(p, ok) ==
    /\ p \in 1..Len(passes)
    /\ passes[p].pc = "photo"
    /\ LET q == passes[p] IN
       IF ~ok
       THEN /\ canvas' = [canvas EXCEPT ![q.canvas] = Draw(@, BrokenPhotoOps(p, q.i))]
            /\ passes' = [passes EXCEPT ![p].pc = "rejected", ![p].failed = "photo"]
            /\ NoPublish
       ELSE IF q.i < q.n
       THEN /\ canvas' = [canvas EXCEPT ![q.canvas] = Draw(@, PhotoOps(impl, p, q.i))]
            /\ passes' = [passes EXCEPT ![p].i = q.i + 1]
            /\ NoPublish
       ELSE IF q.stickers # <<>>
       THEN /\ canvas' = [canvas EXCEPT ![q.canvas] =
                             Draw(@, PhotoOps(impl, p, q.i) \o OpsAfterPhotos(impl, q.fn, p))]
            /\ passes' = [passes EXCEPT ![p].i = 1, ![p].pc = "sticker"]
            /\ NoPublish
       ELSE Finish(p, PhotoOps(impl, p, q.i) \o OpsAfterPhotos(impl, q.fn, p)
                        \o (IF q.fn = "generateFilmStrip"
                            THEN OpsAfterStickers(impl, p) ELSE <<>>))
    /\ UNCHANGED <<nonRender, step, layout, photos, stickers, footerText>>

\* the artwork of sticker i of pass p has loaded (ok) or failed
StickerLoaded(p, ok) ==
    /\ p \in 1..Len(passes)
    /\ passes[p].pc = "sticker"
    /\ LET q == passes[p] IN
       IF ~ok
       THEN /\ passes' = [passes EXCEPT ![p].pc = "rejected", ![p].failed = "sticker"]
            /\ UNCHANGED canvas
            /\ NoPublish
       ELSE IF q.i < Len(q.stickers)
       THEN /\ canvas' = [canvas EXCEPT ![q.canvas] =
                             Draw(@, <<Op(p, "sticker", q.stickers[q.i].id)>>)]
            /\ passes' = [passes EXCEPT ![p].i = q.i + 1]
            /\ NoPublish
       ELSE Finish(p, <<Op(p, "sticker", q.stickers[q.i].id)>> \o OpsAfterStickers(impl, p))
    /\ UNCHANGED <<nonRender, step, layout, photos, stickers, footerText>>

RenderNext ==
    \/ \E text \in {"", "A"} : EditFooterText(text)
    \/ AddStickerToStrip
    \/ MoveToFinal
    \/ \E p \in 1..MaxPasses, ok \in BOOLEAN : PhotoLoaded(p, ok)
    \/ \E p \in 1..MaxPasses, ok \in BOOLEAN : StickerLoaded(p, ok)

SpecRender == RenderInit /\ [][RenderNext]_vars

-----------------------------------------------------------------------------
(* Sticker handlers of the edit step, App and Cyber-shot Homes.  The App   *)
(* handlers update the collection with setStickers(prev => ...); the       *)
(* Cyber-shot handlers with setStickers(f(stickers)), stickers being the   *)
(* value of the render their closure was created in.  The handlers of the  *)
(* buttons are created anew on every render; the mousemove listener of a   *)
(* drag keeps the closure of the render of its mousedown.                  *)

\* bound of the rotation a sticker is given with ROTATE
MaxRotation == 15

StickerTypes == {"star"}

\* Math.random() * 20 - 10
AddRotations == {-10, 5}

\* pointer positions of a click on the App preview container, in percent of it
AppClickPoints == {<<50, 50>>}
\* pointer positions during a drag in App, in percent of the container
AppMovePoints == {<<120, -20>>, <<25, 75>>}
\* pointer positions of a click on the Cyber preview, in pixels
CyberClickPoints == {<<100, 100>>}
\* pointer offsets from the mousedown of a drag in Cyber, in pixels
CyberMoveDeltas == {<<-600, -600>>, <<600, 600>>}

Max(a, b) == IF a >= b THEN a ELSE b

Min(a, b) == IF a <= b THEN a ELSE b

ScaleMin(im) == IF im = "App" THEN 3 ELSE 5

ScaleMax(im) == IF im = "App" THEN 25 ELSE 20

\* the upper limit left out
ClampScaleOpen(im, v) == Max(ScaleMin(im), v)

\* Math.max(0.3, Math.min(2.5, v)) in App, Math.max(0.5, Math.min(2, v)) in Cyber
ClampScale(im, v) == Max(ScaleMin(im), Min(ScaleMax(im), v))

\* Math.max(0, Math.min(100, v))
ClampPercent(v) == Max(0, Min(100, v))

\* Math.max(0, Math.min(600 - 80 * s.scale, v))
ClampPixel(s, v) == Max(0, Min(600 - 8 * s.scale, v))

Ids(st) == {st[i].id : i \in 1..Len(st)}

\* st.map(s => s.id === id ? f(s) : s), upd[i] being f(st[i])
MapSticker(st, id, upd) ==
    [i \in 1..Len(st) |-> IF st[i].id = id THEN upd[i] ELSE st[i]]

\* st.filter(s => s.id !== id)
RECURSIVE FilterOut(_, _)
FilterOut(st, id) ==
    IF st = <<>> THEN <<>>
    ELSE IF Head(st).id = id THEN FilterOut(Tail(st), id)
    ELSE <<Head(st)>> \o FilterOut(Tail(st), id)

\* stickers.find(s => s.id === id)?.scale || 1
ScaleOrDefault(st, id) ==
    IF id \in Ids(st) THEN (CHOOSE s \in {st[i] : i \in 1..Len(st)} : s.id = id).scale ELSE 10

\* stickers.find(s => s.id === id)?.rotation || 0
RotationOrDefault(st, id) ==
    IF id \in Ids(st) THEN (CHOOSE s \in {st[i] : i \in 1..Len(st)} : s.id = id).rotation ELSE 0

\* the canvas of a preview pass that has finished
PreviewCanvas(im, l, n) ==
    LET RECURSIVE Photos(_)
        Photos(k) == IF k = 0 THEN <<>> ELSE Photos(k - 1) \o PhotoOps(im, 1, k)
    IN  [width |-> stripWidth, height |-> totalHeight(l, n),
         ops |-> OpeningOps(1) \o Photos(n) \o FooterOps(1)]

\* the edit step of a single-photo session once its preview is shown
EditInit ==
    /\ impl \in {"App", "Cyber"}
    /\ step = "stickers"
    /\ layout = "single"
    /\ photos = <<[retro |-> FALSE]>>
    /\ stickers = <<>>
    /\ footerText = ""
    /\ passes = <<[fn |-> "generatePreview", canvas |-> CanvasOf(impl, "generatePreview"),
                   n |-> 1, layout |-> "single", stickers |-> <<>>, text |-> "",
                   height |-> totalHeight("single", 1), i |-> 1, failed |-> "none",
                   pc |-> "done"]>>
    /\ canvas = [c \in CanvasNames |->
                    IF c = CanvasOf(impl, "generatePreview")
                    THEN PreviewCanvas(impl, "single", 1) ELSE BlankCanvas]
    /\ previewDataUrl = PreviewCanvas(impl, "single", 1)
    /\ filmStripDataUrl = EmptyUrl
    /\ filmStripReady = FALSE
    /\ CameraIdle
    /\ StickerIdle
    /\ CropIdle
    /\ FilterIdle

\* what the sticker handlers leave alone
nonSticker == <<impl, step, layout, photos, stream, facingMode, cameraError, countdown,
                cameraFilter, isAutoCapturing, currentPhotoIndex, getUserMediaCalls,
                captureSequences, stepTimers, footerText, passes, canvas,
                previewDataUrl, filmStripDataUrl, filmStripReady, cropVars, filterVars>>

\* a palette button of App: setSelectedSticker(type); setSelectedPlacedSticker(null)
PickStickerApp(type) ==
    /\ impl = "App" /\ step = "stickers"
    /\ selectedSticker' = type
    /\ selectedPlacedSticker' = 0
    /\ UNCHANGED <<nonSticker, used, stickers, dragging, clock>>

\* a palette button of Cyber: setSelectedSticker(selectedSticker === type ? null : type)
PickStickerCyber(type) ==
    /\ impl = "Cyber" /\ step = "stickers"
    /\ selectedSticker' = IF selectedSticker = type THEN "null" ELSE type
    /\ UNCHANGED <<nonSticker, used, stickers, selectedPlacedSticker, dragging, clock>>

\* the values Date.now() can return at the next call: the clock may not have
\* advanced since the last one
Now == {t \in 1..MaxClock : clock <= t /\ t <= clock + 1}

\* [newSticker, ...prev]
PrependSticker(st, s) == <<s>> \o st
\* [...prev, newSticker]
AppendSticker(st, s) == Append(st, s)

\* App addSticker: a click on the preview container
addSticker(at, rotation) ==
    /\ impl = "App" /\ step = "stickers"
    /\ dragging = NoDrag
    /\ selectedSticker # "null"
    /\ Len(stickers) < MaxStickers
    /\ \E now \in Now :
          /\ clock' = now
          /\ stickers' = AppendSticker(stickers, NewSticker(now, selectedSticker, at, rotation))
          /\ selectedPlacedSticker' = now
    /\ selectedSticker' = "null"
    /\ UNCHANGED <<nonSticker, used, dragging>>

\* Cyber handleStickerClick: a click on the preview
handleStickerClick(at) ==
    /\ impl = "Cyber" /\ step = "stickers"
    /\ previewDataUrl # EmptyUrl
    /\ dragging = NoDrag
    /\ selectedSticker # "null"
    /\ Len(stickers) < MaxStickers
    /\ \E now \in Now :
          /\ clock' = now
          /\ stickers' = AppendSticker(stickers, NewSticker(now, selectedSticker, at, 0))
    /\ UNCHANGED <<nonSticker, used, selectedSticker, selectedPlacedSticker, dragging>>

\* onClick of a placed sticker, both Homes
ClickPlacedSticker(id) ==
    /\ step = "stickers"
    /\ dragging = NoDrag
    /\ id \in Ids(stickers)
    /\ selectedPlacedSticker' = id
    /\ UNCHANGED <<nonSticker, used, stickers, selectedSticker, dragging, clock>>

\* App handleStickerDrag: mousedown / touchstart on a placed sticker
handleStickerDragStart(id) ==
    /\ impl = "App" /\ step = "stickers"
    /\ dragging = NoDrag
    /\ id \in Ids(stickers)
    /\ selectedPlacedSticker' = id
    /\ used.drag < MaxDrags
    /\ used' = Use("drag")
    /\ dragging' = [id |-> id, stickers |-> <<>>]
    /\ UNCHANGED <<nonSticker, stickers, selectedSticker, clock>>

\* App handleMove: updateStickerPosition(stickerId, {x, y})
handleMove(at) ==
    /\ impl = "App"
    /\ dragging # NoDrag
    /\ LET upd == [i \in 1..Len(stickers) |->
                     [stickers[i] EXCEPT !.x = ClampPercent(at[1]), !.y = ClampPercent(at[2])]]
       IN  stickers' = MapSticker(stickers, dragging.id, upd)
    /\ UNCHANGED <<nonSticker, used, selectedSticker, selectedPlacedSticker, dragging, clock>>

\* Cyber onMouseDown of a placed sticker: the listeners keep this render's
\* handleStickerDrag, and with it this render's stickers
onMouseDown(id) ==
    /\ impl = "Cyber" /\ step = "stickers"
    /\ dragging = NoDrag
    /\ id \in Ids(stickers)
    /\ used.drag < MaxDrags
    /\ used' = Use("drag")
    /\ dragging' = [id |-> id, stickers |-> stickers]
    /\ UNCHANGED <<nonSticker, stickers, selectedSticker, selectedPlacedSticker, clock>>

\* Cyber handleMouseMove: handleStickerDrag(sticker.id, dx, dy)
handleMouseMove(d) ==
    /\ impl = "Cyber"
    /\ dragging # NoDrag
    /\ LET st == dragging.stickers
           upd == [i \in 1..Len(st) |->
                     [st[i] EXCEPT !.x = ClampPixel(st[i], st[i].x + d[1]),
                                   !.y = ClampPixel(st[i], st[i].y + d[2])]]
       IN  stickers' = MapSticker(st, dragging.id, upd)
    /\ UNCHANGED <<nonSticker, used, selectedSticker, selectedPlacedSticker, dragging, clock>>

\* handleEnd (App) / handleMouseUp (Cyber): the listeners are removed
handleMouseUp ==
    /\ dragging # NoDrag
    /\ dragging' = NoDrag
    /\ UNCHANGED <<nonSticker, used, stickers, selectedSticker, selectedPlacedSticker, clock>>

\* App resizeSticker(selectedPlacedSticker, delta), the zoom buttons
resizeSticker(delta) ==
    /\ impl = "App" /\ step = "stickers"
    /\ selectedPlacedSticker # 0
    /\ LET upd == [i \in 1..Len(stickers) |->
                     [stickers[i] EXCEPT !.scale = ClampScale(impl, @ + delta)]]
       IN  stickers' = MapSticker(stickers, selectedPlacedSticker, upd)
    /\ UNCHANGED <<nonSticker, used, selectedSticker, selectedPlacedSticker, dragging, clock>>

\* Cyber handleStickerResize(selectedPlacedSticker, scale + delta), BIGGER / SMALLER
handleStickerResize(delta) ==
    /\ impl = "Cyber" /\ step = "stickers"
    /\ selectedPlacedSticker # 0
    /\ LET scale == ScaleOrDefault(stickers, selectedPlacedSticker) + delta
           upd == [i \in 1..Len(stickers) |->
                     [stickers[i] EXCEPT !.scale = ClampScale(impl, scale)]]
       IN  stickers' = MapSticker(stickers, selectedPlacedSticker, upd)
    /\ UNCHANGED <<nonSticker, used, selectedSticker, selectedPlacedSticker, dragging, clock>>

\* Cyber handleStickerRotate(selectedPlacedSticker, rotation + 15), ROTATE
handleStickerRotate ==
    /\ impl = "Cyber" /\ step = "stickers"
    /\ selectedPlacedSticker # 0
    /\ LET rotation == RotationOrDefault(stickers, selectedPlacedSticker) + 15
           upd == [i \in 1..Len(stickers) |-> [stickers[i] EXCEPT !.rotation = rotation]]
       IN  /\ rotation - 15 < MaxRotation
           /\ stickers' = MapSticker(stickers, selectedPlacedSticker, upd)
    /\ UNCHANGED <<nonSticker, used, selectedSticker, selectedPlacedSticker, dragging, clock>>

\* deleteSticker without its setSelectedPlacedSticker(null)
deleteStickerOnly ==
    /\ step = "stickers"
    /\ selectedPlacedSticker # 0
    /\ stickers' = FilterOut(stickers, selectedPlacedSticker)
    /\ UNCHANGED <<nonSticker, used, selectedSticker, selectedPlacedSticker, dragging, clock>>
\* deleteSticker(selectedPlacedSticker), both Homes
deleteSticker ==
    /\ step = "stickers"
    /\ selectedPlacedSticker # 0
    /\ stickers' = FilterOut(stickers, selectedPlacedSticker)
    /\ selectedPlacedSticker' = 0
    /\ UNCHANGED <<nonSticker, used, selectedSticker, dragging, clock>>

\* the done button of App: setSelectedPlacedSticker(null)
DeselectPlaced ==
    /\ impl = "App" /\ step = "stickers"
    /\ selectedPlacedSticker # 0
    /\ selectedPlacedSticker' = 0
    /\ UNCHANGED <<nonSticker, used, stickers, selectedSticker, dragging, clock>>

StickerNext ==
    \/ \E type \in StickerTypes : PickStickerApp(type)
    \/ \E type \in StickerTypes : PickStickerCyber(type)
    \/ \E at \in AppClickPoints, rotation \in AddRotations : addSticker(at, rotation)
    \/ \E at \in CyberClickPoints : handleStickerClick(at)
    \/ \E id \in 1..MaxStickers : ClickPlacedSticker(id)
    \/ \E id \in 1..MaxStickers : handleStickerDragStart(id)
    \/ \E at \in AppMovePoints : handleMove(at)
    \/ \E id \in 1..MaxStickers : onMouseDown(id)
    \/ \E d \in CyberMoveDeltas : handleMouseMove(d)
    \/ handleMouseUp
    \/ \E delta \in {-2, 2} : resizeSticker(delta)
    \/ \E delta \in {-2, 2} : handleStickerResize(delta)
    \/ handleStickerRotate
    \/ deleteSticker
    \/ DeselectPlaced

SpecSticker == EditInit /\ [][StickerNext]_vars

-----------------------------------------------------------------------------
(* The drawImage call of one photo block.  Lengths that the code computes  *)
(* by division are kept as fractions <<numerator, denominator>>.           *)

\* width and height of a source bitmap
MaxDim == 8

Frac(n, d) == <<n, d>>

FracEq(a, b) == a[1] * b[2] = b[1] * a[2]

FracLeq(a, b) == a[1] * b[2] <= b[1] * a[2]

FracAdd(a, b) == <<a[1] * b[2] + b[1] * a[2], a[2] * b[2]>>

\* the source rectangle of ctx.drawImage for a bitmap of w x h and a slot of
\* dw x dh: App passes (sx, sy, sw, sh) computed from the two aspect ratios,
\* Cyber calls drawImage(img, dx, dy, dw, dh), which reads the whole bitmap
SourceRect(im, w, h, dw, dh) ==
    IF im = "App"
    THEN IF w * dh > dw * h                               \* imgAspect > targetAspect
         THEN [sx |-> Frac(w * dh - h * dw, 2 * dh), sy |-> Frac(0, 1),
               sw |-> Frac(h * dw, dh), sh |-> Frac(h, 1)]
         ELSE [sx |-> Frac(0, 1), sy |-> Frac(h * dw - w * dh, 2 * dw),
               sw |-> Frac(w, 1), sh |-> Frac(w * dh, dw)]
    ELSE [sx |-> Frac(0, 1), sy |-> Frac(0, 1), sw |-> Frac(w, 1), sh |-> Frac(h, 1)]

\* a session in the edit step whose photos are bitmaps of one size
CropInit ==
    /\ \E l \in {"single", "strip"} : EditSession(<<"App", l, PhotosPerPress(l)>>)
                                        \/ EditSession(<<"Cyber", l, PhotosPerPress(l)>>)
    /\ source \in [w : 1..MaxDim, h : 1..MaxDim]
    /\ drawn = NoDraw
    /\ CameraIdle
    /\ StickerIdle
    /\ FilterIdle

\* the photo block of fn once the image has loaded
DrawPhoto(fn) ==
    /\ photos # <<>>
    /\ drawn' = [fn |-> fn, dw |-> photoWidth, dh |-> photoHeight(layout),
                 rect |-> SourceRect(impl, source.w, source.h, photoWidth, photoHeight(layout))]
    /\ UNCHANGED <<impl, captureVars, renderVars, stickerVars, source, filterVars>>

CropNext == \E fn \in {"generatePreview", "generateFilmStrip"} : DrawPhoto(fn)

SpecCrop == CropInit /\ [][CropNext]_vars

-----------------------------------------------------------------------------
(* The drawImage call of one sticker in generateFilmStrip: the point the   *)
(* context is translated to is the centre of the drawn sticker, because    *)
(* the artwork is drawn at (-size/2, -size/2) with size x size.            *)

FracSub(a, b) == <<a[1] * b[2] - b[1] * a[2], a[2] * b[2]>>

\* const stickerSize = 80 * sticker.scale; the scale is kept in tenths, so
\* that the size is 8 * scale pixels and its half 4 * scale
StickerSize(s) == Frac(8 * s.scale, 1)

\* the argument of ctx.translate for sticker s on a canvas of w x h.
\* App:   x = (sticker.x / 100) * stripWidth - stickerSize / 2;
\*        ctx.translate(x + stickerSize / 2, y + stickerSize / 2)
\* Cyber: ctx.translate(sticker.x + stickerWidth / 2, sticker.y + stickerHeight / 2)
StickerCentre(im, s, w, h) ==
    LET half == Frac(4 * s.scale, 1) IN
    IF im = "App"
    THEN [cx |-> FracAdd(FracSub(Frac(s.x * w, 100), half), half),
          cy |-> FracAdd(FracSub(Frac(s.y * h, 100), half), half)]
    ELSE [cx |-> FracAdd(Frac(s.x, 1), half),
          cy |-> FracAdd(Frac(s.y, 1), half)]

\* positions, scales and rotations of the sticker of a session
PlacePositions == {0, 50, 100}

PlaceScales(im) == {ScaleMin(im), 10, ScaleMax(im)}

PlaceRotations(im) == IF im = "App" THEN AddRotations ELSE {0, 15}

\* the edit step of a session that holds one sticker, its preview shown
PlaceInit ==
    /\ impl \in {"App", "Cyber"}
    /\ layout \in {"single", "strip"}
    /\ step = "stickers"
    /\ photos = [k \in 1..PhotosPerPress(layout) |-> [retro |-> FALSE]]
    /\ \E x \in PlacePositions, y \in PlacePositions, scale \in PlaceScales(impl),
          rotation \in PlaceRotations(impl) :
          stickers = <<[NewSticker(1, "star", <<x, y>>, rotation) EXCEPT !.scale = scale]>>
    /\ footerText = ""
    /\ passes = <<[fn |-> "generatePreview", canvas |-> CanvasOf(impl, "generatePreview"),
                   n |-> Len(photos), layout |-> layout, stickers |-> <<>>, text |-> "",
                   height |-> totalHeight(layout, Len(photos)), i |-> 1,
                   failed |-> "none", pc |-> "done"]>>
    /\ canvas = [c \in CanvasNames |->
                    IF c = CanvasOf(impl, "generatePreview")
                    THEN PreviewCanvas(impl, layout, Len(photos)) ELSE BlankCanvas]
    /\ previewDataUrl = PreviewCanvas(impl, layout, Len(photos))
    /\ filmStripDataUrl = EmptyUrl
    /\ filmStripReady = FALSE
    /\ CameraIdle
    /\ selectedSticker = "null"
    /\ selectedPlacedSticker = 0
    /\ dragging = NoDrag
    /\ clock = 1
    /\ CropIdle
    /\ FilterIdle

\* the body of the sticker loop of generateFilmStrip for sticker k, its artwork loaded
DrawSticker(k) ==
    /\ k \in 1..Len(stickers)
    /\ LET w == stripWidth
           h == totalHeight(layout, Len(photos))
           c == StickerCentre(impl, stickers[k], w, h)
       IN  drawn' = [fn |-> "generateFilmStrip", sticker |-> stickers[k],
                     w |-> w, h |-> h, cx |-> c.cx, cy |-> c.cy,
                     size |-> StickerSize(stickers[k])]
    /\ UNCHANGED <<impl, captureVars, renderVars, stickerVars, source, filterVars>>

PlaceNext == \E k \in 1..MaxStickers : DrawSticker(k)

SpecPlace == PlaceInit /\ [][PlaceNext]_vars

-----------------------------------------------------------------------------
(* The edit and final steps of a session as a whole: the render passes,    *)
(* the drag of a placed sticker, whose listeners on document outlive the   *)
(* step, and reset, which the edit and final steps offer at any time.      *)

SessionNext ==
    \/ RenderNext
    \/ ResetSession
    \/ \E id \in 1..MaxStickers : handleStickerDragStart(id)
    \/ \E at \in AppMovePoints : handleMove(at)
    \/ \E id \in 1..MaxStickers : onMouseDown(id)
    \/ \E d \in CyberMoveDeltas : handleMouseMove(d)
    \/ handleMouseUp

SpecSession == RenderInit /\ [][SessionNext]_vars


-----------------------------------------------------------------------------
(* App Home: camera step.  cameraReady is true from play() resolving until *)
(* the next startCamera() or stopCamera(); stream holds the facing mode of *)
(* the playing stream while cameraReady is true and "none" otherwise.      *)
(* countdown holds -1 for null: the component tells null from 0.           *)

photosNeeded(l) == IF l = "single" THEN 1 ELSE 4

\* startCamera(facing): clears the error and cameraReady, suspends at getUserMedia
startCamera(facing) ==
    /\ cameraError' = FALSE
    /\ stream' = "none"
    /\ getUserMediaCalls' = Append(getUserMediaCalls, facing)

AppCaptureInit ==
    /\ impl = "App"
    /\ step = "layout"
    /\ layout = "null"
    /\ photos = <<>>
    /\ stream = "none"
    /\ facingMode = "user"
    /\ cameraError = FALSE
    /\ countdown = -1
    /\ cameraFilter = "original"
    /\ isAutoCapturing = FALSE
    /\ currentPhotoIndex = 0
    /\ getUserMediaCalls = <<>>
    /\ captureSequences = <<>>
    /\ stepTimers = 0
    /\ used = [camera |-> 0, sequence |-> 0, shutter |-> 0, drag |-> 0]
    /\ stickers = <<>>
    /\ footerText = ""
    /\ passes = <<>>
    /\ canvas = [c \in CanvasNames |-> BlankCanvas]
    /\ previewDataUrl = EmptyUrl
    /\ filmStripDataUrl = EmptyUrl
    /\ filmStripReady = FALSE
    /\ StickerIdle
    /\ CropIdle
    /\ FilterIdle

\* selectLayout(type), and the effect on [step] that calls startCamera()
selectLayout(type) ==
    /\ step = "layout"
    /\ used.camera < MaxCameraCalls
    /\ used' = Use("camera")
    /\ layout' = type
    /\ step' = "camera"
    /\ startCamera(facingMode)
    /\ UNCHANGED <<nonCapture, photos, facingMode, countdown, cameraFilter,
                   isAutoCapturing, currentPhotoIndex, captureSequences, stepTimers>>

\* getUserMedia resolves; with the <video> mounted, onloadedmetadata and play()
\* follow and set cameraReady
AppGetUserMediaResolve ==
    /\ getUserMediaCalls # <<>>
    /\ getUserMediaCalls' = Tail(getUserMediaCalls)
    /\ stream' = IF step = "camera" THEN Head(getUserMediaCalls) ELSE stream
    /\ UNCHANGED <<nonCapture, step, layout, photos, facingMode, cameraError, countdown,
                   cameraFilter, isAutoCapturing, currentPhotoIndex,
                   captureSequences, stepTimers, used>>

\* getUserMedia rejects: setCameraError(...)
AppGetUserMediaReject ==
    /\ getUserMediaCalls # <<>>
    /\ getUserMediaCalls' = Tail(getUserMediaCalls)
    /\ cameraError' = TRUE
    /\ UNCHANGED <<nonCapture, step, layout, photos, stream, facingMode, countdown,
                   cameraFilter, isAutoCapturing, currentPhotoIndex,
                   captureSequences, stepTimers, used>>

\* the RETRY button of the camera error overlay: startCamera()
AppRetry ==
    /\ step = "camera" /\ cameraError
    /\ used.camera < MaxCameraCalls
    /\ used' = Use("camera")
    /\ startCamera(facingMode)
    /\ UNCHANGED <<nonCapture, step, layout, photos, facingMode, countdown, cameraFilter,
                   isAutoCapturing, currentPhotoIndex, captureSequences, stepTimers>>

\* toggleCamera(), disabled while isAutoCapturing
toggleCamera ==
    /\ step = "camera" /\ ~isAutoCapturing
    /\ used.camera < MaxCameraCalls
    /\ used' = Use("camera")
    /\ facingMode' = OtherFacing(facingMode)
    /\ startCamera(facingMode')
    /\ UNCHANGED <<nonCapture, step, layout, photos, countdown, cameraFilter,
                   isAutoCapturing, currentPhotoIndex, captureSequences, stepTimers>>

\* the ORIGINAL and RETRO buttons: setCameraFilter(f)
SetCameraFilter(f) ==
    /\ step = "camera"
    /\ cameraFilter # f
    /\ cameraFilter' = f
    /\ UNCHANGED <<nonCapture, step, layout, photos, stream, facingMode, cameraError,
                   countdown, isAutoCapturing, currentPhotoIndex, getUserMediaCalls,
                   captureSequences, stepTimers, used>>

\* startCapture() behind a shutter that is disabled only without cameraReady
startCaptureAnyTime ==
    /\ step = "camera" /\ stream # "none"
    /\ countdown' = 3
    /\ IF layout = "strip"
       THEN isAutoCapturing' = TRUE /\ currentPhotoIndex' = 0
       ELSE UNCHANGED <<isAutoCapturing, currentPhotoIndex>>
    /\ UNCHANGED <<nonCapture, step, layout, photos, stream, facingMode, cameraError,
                   cameraFilter, getUserMediaCalls, captureSequences, stepTimers, used>>
\* startCapture(): the shutter, disabled unless cameraReady, countdown null and
\* not auto-capturing
startCapture ==
    /\ step = "camera" /\ stream # "none" /\ countdown = -1 /\ ~isAutoCapturing
    /\ countdown' = 3
    /\ IF layout = "strip"
       THEN isAutoCapturing' = TRUE /\ currentPhotoIndex' = 0
       ELSE UNCHANGED <<isAutoCapturing, currentPhotoIndex>>
    /\ UNCHANGED <<nonCapture, step, layout, photos, stream, facingMode, cameraError,
                   cameraFilter, getUserMediaCalls, captureSequences, stepTimers, used>>

\* const newPhotos = [...photos, { dataUrl, timestamp }] with one photo only
NewPhotosAlone(ps, retro) == <<[retro |-> retro]>>
\* const newPhotos = [...photos, { dataUrl, timestamp }]
NewPhotos(ps, retro) == Append(ps, [retro |-> retro])

\* capturePhotoForSequence(), called by the countdown effect of the render in
\* which countdown became 0: photos, cameraFilter, isAutoCapturing and layout
\* are the values of that render
capturePhotoForSequence ==
    IF step # "camera" \/ stream = "none"
    THEN UNCHANGED <<photos, currentPhotoIndex, isAutoCapturing, step, stream, stepTimers>>
         /\ countdown' = 0
    ELSE LET newPhotos == NewPhotos(photos, cameraFilter = "retro") IN
         /\ photos' = newPhotos
         /\ currentPhotoIndex' = currentPhotoIndex + 1
         /\ IF Len(newPhotos) >= photosNeeded(layout)
            THEN /\ isAutoCapturing' = FALSE
                 /\ countdown' = -1
                 /\ stream' = "none"
                 /\ step' = "stickers"
                 /\ UNCHANGED stepTimers
            ELSE IF isAutoCapturing /\ layout = "strip"
            THEN /\ stepTimers' = stepTimers + 1
                 /\ countdown' = 0
                 /\ UNCHANGED <<isAutoCapturing, stream, step>>
            ELSE /\ countdown' = -1
                 /\ UNCHANGED <<isAutoCapturing, stream, step, stepTimers>>

\* the 1000 ms timer of the countdown effect fires: setCountdown(countdown - 1);
\* at 0 the effect captures
AppCountdownFire ==
    /\ countdown > 0
    /\ IF countdown > 1
       THEN /\ countdown' = countdown - 1
            /\ UNCHANGED <<photos, currentPhotoIndex, isAutoCapturing, step, stream,
                           stepTimers>>
       ELSE capturePhotoForSequence
    /\ UNCHANGED <<nonCapture, layout, facingMode, cameraError, cameraFilter,
                   getUserMediaCalls, captureSequences, used>>

\* the 800 ms timer between two photos of a strip fires: setCountdown(3)
AppPauseFire ==
    /\ stepTimers > 0
    /\ stepTimers' = stepTimers - 1
    /\ countdown' = 3
    /\ UNCHANGED <<nonCapture, step, layout, photos, stream, facingMode, cameraError,
                   cameraFilter, isAutoCapturing, currentPhotoIndex,
                   getUserMediaCalls, captureSequences, used>>

\* reset(): the cancel button of the camera step (disabled while
\* isAutoCapturing) and the reset buttons of the edit and final steps
reset ==
    /\ \/ step = "camera" /\ ~isAutoCapturing
       \/ step \in {"stickers", "final"}
    /\ layout' = "null"
    /\ photos' = <<>>
    /\ step' = "layout"
    /\ cameraError' = FALSE
    /\ cameraFilter' = "original"
    /\ isAutoCapturing' = FALSE
    /\ currentPhotoIndex' = 0
    /\ countdown' = -1
    /\ stream' = "none"
    /\ stickers' = <<>>
    /\ footerText' = ""
    /\ filmStripReady' = FALSE
    /\ filmStripDataUrl' = EmptyUrl
    /\ previewDataUrl' = EmptyUrl
    /\ selectedSticker' = "null"
    /\ selectedPlacedSticker' = 0
    /\ UNCHANGED <<impl, passes, canvas, facingMode, getUserMediaCalls,
                   captureSequences, stepTimers, used, dragging, clock, cropVars, filterVars>>

AppCaptureNext ==
    \/ \E type \in {"single", "strip"} : selectLayout(type)
    \/ AppGetUserMediaResolve
    \/ AppGetUserMediaReject
    \/ AppRetry
    \/ toggleCamera
    \/ \E f \in {"original", "retro"} : SetCameraFilter(f)
    \/ startCapture
    \/ AppCountdownFire
    \/ AppPauseFire
    \/ MoveToFinalStep
    \/ reset

SpecAppCapture == AppCaptureInit /\ [][AppCaptureNext]_vars


-----------------------------------------------------------------------------
(* The edit step up to the film strip: the sticker handlers of a single-   *)
(* photo session followed by moveToFinal() and its render pass             *)

LayerNext ==
    \/ \E type \in StickerTypes : PickStickerApp(type)
    \/ \E type \in StickerTypes : PickStickerCyber(type)
    \/ \E at \in AppClickPoints : addSticker(at, 5)
    \/ \E at \in CyberClickPoints : handleStickerClick(at)
    \/ \E id \in 1..MaxClock : ClickPlacedSticker(id)
    \/ \E id \in 1..MaxClock : handleStickerDragStart(id)
    \/ handleMove(<<25, 75>>)
    \/ \E id \in 1..MaxClock : onMouseDown(id)
    \/ handleMouseMove(<<600, 600>>)
    \/ handleMouseUp
    \/ resizeSticker(2)
    \/ handleStickerResize(2)
    \/ handleStickerRotate
    \/ deleteSticker
    \/ MoveToFinal
    \/ \E p \in 1..MaxPasses, ok \in BOOLEAN : PhotoLoaded(p, ok)
    \/ \E p \in 1..MaxPasses, ok \in BOOLEAN : StickerLoaded(p, ok)

SpecLayer == EditInit /\ [][LayerNext]_vars


-----------------------------------------------------------------------------
(* generateFilmStrip as a function of the session: calls that follow one   *)
(* another on unchanged photos, layout, texts and stickers, the first on a *)
(* canvas that may hold an earlier composite                               *)

\* what the canvases can hold before the first call
PriorCanvases(im) == {BlankCanvas, PreviewCanvas(im, "strip", 4)}

\* the sticker collections of the calls
RerunStickers ==
    {<<>>, <<NewSticker(1, "star", <<50, 50>>, 0)>>,
     <<NewSticker(1, "star", <<50, 50>>, 0), NewSticker(2, "star", <<25, 75>>, 5)>>}

RerunInit ==
    /\ \E in \in RenderInputs :
          /\ impl = in[1]
          /\ layout = in[2]
          /\ photos = [k \in 1..in[3] |-> [retro |-> FALSE]]
    /\ step = "final"
    /\ stickers \in RerunStickers
    /\ footerText \in {"", "x"}
    /\ passes = <<>>
    /\ \E prior \in PriorCanvases(impl) : canvas = [c \in CanvasNames |-> prior]
    /\ previewDataUrl = EmptyUrl
    /\ filmStripDataUrl = EmptyUrl
    /\ filmStripReady = FALSE
    /\ CameraIdle
    /\ StickerIdle
    /\ CropIdle
    /\ FilterIdle

\* generateFilmStrip(), called once the call before it has settled
generateFilmStrip ==
    /\ \A p \in 1..Len(passes) : passes[p].pc \notin {"photo", "sticker"}
    /\ Len(passes) < MaxPasses
    /\ StartPass("generateFilmStrip")
    /\ NoPublish
    /\ UNCHANGED <<nonRender, step, layout, photos, stickers, footerText>>

RerunNext ==
    \/ generateFilmStrip
    \/ \E p \in 1..MaxPasses, ok \in BOOLEAN : PhotoLoaded(p, ok)
    \/ \E p \in 1..MaxPasses, ok \in BOOLEAN : StickerLoaded(p, ok)

SpecRerun == RerunInit /\ [][RerunNext]_vars


-----------------------------------------------------------------------------
(* applyRetroFilter of App.tsx on one pixel.  data is a Uint8ClampedArray: *)
(* every store clamps to 0..255 and rounds to the nearest integer; the     *)
(* second statement of a channel reads what the first one stored.  Values  *)
(* are kept as fractions n / d.                                            *)

\* the largest value of a channel
MaxChannel == 255

\* channel values the two other channels take while one runs over 0..255
Levels == {0, 128, 255}

Channels == 0..MaxChannel

PixelSamples ==
    [r : Channels, g : Levels, b : Levels]
        \cup [r : Levels, g : Channels, b : Levels]
        \cup [r : Levels, g : Levels, b : Channels]

\* what a store of n / d into a Uint8ClampedArray can leave: the nearest integer
\* within 0..255; halfway between two integers the double computed with 1.1,
\* 0.95 or 0.85 may lie on either side, so either neighbour
ToUint8Clamped(n, d) ==
    IF n <= 0 THEN {0}
    ELSE IF n >= MaxChannel * d THEN {MaxChannel}
    ELSE LET q == n \div d
             m == n % d
         IN  IF 2 * m < d THEN {q}
             ELSE IF 2 * m > d THEN {q + 1}
             ELSE {q, q + 1}

\* Math.min(255, r * 1.1 + 20), Math.min(255, g * 0.95 + 10), Math.min(255, b * 0.85)
ShiftRed(r) == ToUint8Clamped(11 * r + 200, 10)
ShiftGreen(g) == ToUint8Clamped(19 * g + 200, 20)
ShiftBlue(b) == ToUint8Clamped(17 * b, 20)

\* Math.min(255, Math.max(0, (v - 128) * 1.1 + 128))
Contrast(v) == ToUint8Clamped(11 * v - 128, 10)

RetroInit ==
    /\ impl = "App"
    /\ step = "camera"
    /\ layout = "single"
    /\ photos = <<>>
    /\ stickers = <<>>
    /\ footerText = ""
    /\ passes = <<>>
    /\ canvas = [c \in CanvasNames |-> BlankCanvas]
    /\ previewDataUrl = EmptyUrl
    /\ filmStripDataUrl = EmptyUrl
    /\ filmStripReady = FALSE
    /\ CameraIdle
    /\ StickerIdle
    /\ CropIdle
    /\ pixel \in PixelSamples
    /\ filtered = [stage |-> "none"]

\* the three stores of the colour shift
ColourShift ==
    /\ filtered.stage = "none"
    /\ \E r \in ShiftRed(pixel.r), g \in ShiftGreen(pixel.g), b \in ShiftBlue(pixel.b) :
          filtered' = [stage |-> "shifted", r |-> r, g |-> g, b |-> b]
    /\ UNCHANGED <<impl, captureVars, renderVars, stickerVars, cropVars, pixel>>

\* the three stores of the contrast stretch
ContrastStretch ==
    /\ filtered.stage = "shifted"
    /\ \E r \in Contrast(filtered.r), g \in Contrast(filtered.g), b \in Contrast(filtered.b) :
          filtered' = [stage |-> "done", r |-> r, g |-> g, b |-> b]
    /\ UNCHANGED <<impl, captureVars, renderVars, stickerVars, cropVars, pixel>>

RetroNext == ColourShift \/ ContrastStretch

SpecRetro == RetroInit /\ [][RetroNext]_vars


-----------------------------------------------------------------------------
(* generatePreview and generateFilmStrip as functions of the same session: *)
(* calls that follow one another on unchanged photos, layout, texts and    *)
(* stickers                                                                *)

\* generatePreview(), called once the call before it has settled
generatePreview ==
    /\ \A p \in 1..Len(passes) : passes[p].pc \notin {"photo", "sticker"}
    /\ Len(passes) < MaxPasses
    /\ StartPass("generatePreview")
    /\ NoPublish
    /\ UNCHANGED <<nonRender, step, layout, photos, stickers, footerText>>

PairNext ==
    \/ generatePreview
    \/ generateFilmStrip
    \/ \E p \in 1..MaxPasses, ok \in BOOLEAN : PhotoLoaded(p, ok)
    \/ \E p \in 1..MaxPasses, ok \in BOOLEAN : StickerLoaded(p, ok)

SpecPair == RerunInit /\ [][PairNext]_vars

-----------------------------------------------------------------------------
(* Y2K Home: camera, captures and the film strip effect *)

\* captures of one session of the Y2K Home
MaxShots == 2

\* STICKERS of the Y2K Home
Y2KStickerTypes == {"smiley", "star", "heart", "rainbow"}

\* Math.random() * 30 - 15 and 0.8 + Math.random() * 0.4 (in tenths) of addSticker
Y2KRandom == {[rotation |-> 0 - 15, scale |-> 8], [rotation |-> 15, scale |-> 12]}

\* where a click on the sticker overlay lands, in percent of the overlay
Y2KClicks == {<<50, 50>>}

\* totalHeight of generateFilmStrip for n photos
Y2KTotalHeight(n) == 100 + n * (400 + 10) + 60 + 180 + 20 * 2

\* <canvas ref={filmStripCanvasRef}> is rendered only under
\* photos.length > 0 && !showCamera
Y2KFilmStripMounted(ps, showCamera) == ps # <<>> /\ ~showCamera

\* generateFilmStrip() of the render with photos ps, up to its first await:
\* it returns at once without photos or without the film strip canvas
Y2KGenerateFilmStrip(ps, showCamera) ==
    IF ps = <<>> \/ ~Y2KFilmStripMounted(ps, showCamera)
    THEN UNCHANGED <<passes, canvas>>
    ELSE /\ passes' = Append(passes, [fn |-> "generateFilmStrip", canvas |-> "filmStrip",
                                      n |-> Len(ps), pc |-> "background"])
         /\ canvas' = [canvas EXCEPT !["filmStrip"] =
                          [width |-> stripWidth, height |-> Y2KTotalHeight(Len(ps)),
                           ops |-> <<>>]]

\* useEffect(() => { if (photos.length > 0) generateFilmStrip(); }, [photos]),
\* run after a render in which photos changed to ps
Y2KPhotosEffect(ps, showCamera) ==
    IF ps # <<>> THEN Y2KGenerateFilmStrip(ps, showCamera)
    ELSE UNCHANGED <<passes, canvas>>

\* useState of the Y2K Home; step holds showCamera: "camera" when true, "home" when false
Y2KInit ==
    /\ impl = "Y2K"
    /\ step = "home"
    /\ layout = "null"
    /\ photos = <<>>
    /\ CameraIdle
    /\ stickers = <<>>
    /\ footerText = ""
    /\ passes = <<>>
    /\ canvas = [c \in CanvasNames |-> BlankCanvas]
    /\ previewDataUrl = EmptyUrl
    /\ filmStripDataUrl = EmptyUrl
    /\ filmStripReady = FALSE
    /\ StickerIdle
    /\ CropIdle
    /\ FilterIdle

\* the Start Camera button, shown under !showCamera && photos.length === 0:
\* startCamera() suspends at getUserMedia
Y2KStartCamera ==
    /\ step = "home" /\ photos = <<>>
    /\ used.camera < MaxCameraCalls
    /\ used' = Use("camera")
    /\ getUserMediaCalls' = Append(getUserMediaCalls, "user")
    /\ UNCHANGED <<nonCapture, step, layout, photos, stream, facingMode, cameraError,
                   countdown, cameraFilter, isAutoCapturing, currentPhotoIndex,
                   captureSequences, stepTimers>>

\* getUserMedia resolves: setStream(mediaStream); setShowCamera(true)
Y2KGetUserMediaResolve ==
    /\ getUserMediaCalls # <<>>
    /\ stream' = Head(getUserMediaCalls)
    /\ step' = "camera"
    /\ getUserMediaCalls' = Tail(getUserMediaCalls)
    /\ UNCHANGED <<nonCapture, layout, photos, facingMode, cameraError, countdown,
                   cameraFilter, isAutoCapturing, currentPhotoIndex,
                   captureSequences, stepTimers, used>>

\* getUserMedia rejects: an alert, no state is set
Y2KGetUserMediaReject ==
    /\ getUserMediaCalls # <<>>
    /\ getUserMediaCalls' = Tail(getUserMediaCalls)
    /\ UNCHANGED <<nonCapture, step, layout, photos, stream, facingMode, cameraError,
                   countdown, cameraFilter, isAutoCapturing, currentPhotoIndex,
                   captureSequences, stepTimers, used>>

\* a button of the sticker selector, shown with the camera
Y2KSelectSticker(type) ==
    /\ step = "camera"
    /\ selectedSticker' = type
    /\ UNCHANGED <<impl, captureVars, renderVars, selectedPlacedSticker, dragging, clock,
                   cropVars, filterVars>>

\* addSticker(e): a click on the sticker overlay of the video
Y2KAddSticker(at) ==
    /\ step = "camera"
    /\ selectedSticker # "null"
    /\ Len(stickers) < MaxStickers
    /\ \E now \in Now, rnd \in Y2KRandom :
          /\ clock' = now
          /\ stickers' = Append(stickers,
                 [id |-> now, type |-> selectedSticker, x |-> at[1], y |-> at[2],
                  rotation |-> rnd.rotation, scale |-> rnd.scale])
    /\ UNCHANGED <<impl, captureVars, footerText, passes, canvas, previewDataUrl,
                   filmStripDataUrl, filmStripReady, selectedSticker,
                   selectedPlacedSticker, dragging, cropVars, filterVars>>

\* capturePhoto(), the Capture button shown with the camera: one more photo, no
\* stickers, and then the effect on [photos] of the render that follows
Y2KCapturePhoto ==
    /\ step = "camera"
    /\ Len(photos) < MaxShots
    /\ \E now \in Now :
          /\ clock' = now
          /\ photos' = Append(photos, [timestamp |-> now, stickers |-> Len(stickers)])
    /\ stickers' = <<>>
    /\ Y2KPhotosEffect(photos', step = "camera")
    /\ UNCHANGED <<impl, step, layout, stream, facingMode, cameraError, countdown,
                   cameraFilter, isAutoCapturing, currentPhotoIndex, getUserMediaCalls,
                   captureSequences, stepTimers, used, footerText, previewDataUrl,
                   filmStripDataUrl, filmStripReady, selectedSticker,
                   selectedPlacedSticker, dragging, cropVars, filterVars>>

\* stopCamera(), the Done button shown with the camera; photos keeps its
\* identity, so the effect on [photos] does not run
Y2KStopCamera ==
    /\ step = "camera"
    /\ stream' = "none"
    /\ step' = "home"
    /\ UNCHANGED <<nonCapture, layout, photos, facingMode, cameraError, countdown,
                   cameraFilter, isAutoCapturing, currentPhotoIndex, getUserMediaCalls,
                   captureSequences, stepTimers, used>>

\* reset(), the New button shown with the film strip; then the effect on [photos]
Y2KReset ==
    /\ Y2KFilmStripMounted(photos, step = "camera")
    /\ photos' = <<>>
    /\ stickers' = <<>>
    /\ filmStripReady' = FALSE
    /\ stream' = "none"
    /\ step' = "home"
    /\ Y2KPhotosEffect(photos', FALSE)
    /\ UNCHANGED <<impl, layout, facingMode, cameraError, countdown, cameraFilter,
                   isAutoCapturing, currentPhotoIndex, getUserMediaCalls,
                   captureSequences, stepTimers, used, footerText, previewDataUrl,
                   filmStripDataUrl, stickerVars, cropVars, filterVars>>

\* The rest of generateFilmStrip, from its first await to setFilmStripReady(true),
\* continues a call that passed the guard; passes records those calls.

Y2KNext ==
    \/ Y2KStartCamera
    \/ Y2KGetUserMediaResolve
    \/ Y2KGetUserMediaReject
    \/ \E type \in Y2KStickerTypes : Y2KSelectSticker(type)
    \/ \E at \in Y2KClicks : Y2KAddSticker(at)
    \/ Y2KCapturePhoto
    \/ Y2KStopCamera
    \/ Y2KReset

SpecY2K == Y2KInit /\ [][Y2KNext]_vars

-----------------------------------------------------------------------------
(* Claims about the camera step (SpecCapture) *)

(* C1: whenever the edit step is entered or the film strip is rendered, the    *)
(* photo sequence holds exactly 1 photo for layout single and exactly 4 for    *)
(* layout strip, whatever the shutter presses, filter toggles, camera flips    *)
(* and timers of the camera step were.                                         *)
C1_ExactPhotoCount ==
    [][((step # "stickers" /\ step' = "stickers") \/ (step = "stickers" /\ step' = "final"))
          => (layout' \in {"single", "strip"} => Len(photos') = PhotosPerPress(layout'))]_vars

-----------------------------------------------------------------------------
(* Claims about the render passes (SpecRender) *)

PassIds == 1..Len(passes)

InProgress(p) == passes[p].pc \in {"photo", "sticker"}

\* margin*2 + headerHeight + n slots and n-1 spacings (0 when n = 0) + footerHeight
ClosedFormHeight(l, n) ==
    margin * 2 + headerHeight
        + (IF n = 0 THEN 0 ELSE n * photoHeight(l) + (n - 1) * spacing)
        + footerHeight

(* C2: for every layout and photo count, the canvas height a render computes  *)
(* is margin*2 + headerHeight + the n slot heights and n-1 spacings +          *)
(* footerHeight.                                                               *)
C2_HeightIsClosedForm ==
    \A p \in PassIds :
        passes[p].pc # "returned" =>
            passes[p].height = ClosedFormHeight(passes[p].layout, passes[p].n)

\* the place of a draw operation in the z-order of the pipeline: background,
\* grain, header, photo blocks in capture order, stickers in insertion order, footer
Rank(op) ==
    CASE op.layer = "background" -> 100
      [] op.layer = "grain"      -> 200
      [] op.layer = "header"     -> 300
      [] op.layer = "matte"      -> 400 + 3 * op.idx
      [] op.layer = "photo"      -> 401 + 3 * op.idx
      [] op.layer = "photoGrain" -> 402 + 3 * op.idx
      [] op.layer = "sticker"    -> 500 + op.idx
      [] op.layer = "footer"     -> 600

(* C3: the draw operations of one pass reach the canvas in the fixed z-order  *)
(* (background, grain, header, photos in capture order, stickers, footer),     *)
(* and no photo or photo matte is drawn onto a canvas after a sticker.         *)
C3_ZOrder ==
    \A c \in CanvasNames :
        LET ops == canvas[c].ops IN
        \A a, b \in 1..Len(ops) :
            a < b =>
                /\ ops[a].pass = ops[b].pass => Rank(ops[a]) < Rank(ops[b])
                /\ ops[a].layer = "sticker" => ops[b].layer \notin {"matte", "photo"}

(* C4: at no time are two render passes in progress against the same canvas.  *)
C4_OnePassPerCanvas ==
    \A p, q \in PassIds :
        (p # q /\ InProgress(p) /\ InProgress(q)) => passes[p].canvas # passes[q].canvas

(* C5: when the artwork of a sticker fails to load during generateFilmStrip,  *)
(* the pass goes on: it is not ended by the failure, and once it is done the   *)
(* film strip is published with every photo and every other sticker drawn.     *)
C5_StickerFailureIsolated ==
    \A p \in PassIds :
        passes[p].failed = "sticker" =>
            /\ passes[p].pc \in {"sticker", "done"}
            /\ passes[p].pc = "done" => filmStripReady

(* C6: a render pass started with at least one photo never raises to its      *)
(* caller, whatever image loads fail (a pass that has raised never finishes    *)
(* and never publishes its output).                                            *)
C6_PassNeverRaises ==
    \A p \in PassIds : passes[p].n >= 1 => passes[p].pc # "rejected"

\* the draw operations of pass p that are on some canvas
OpsOfPass(p) ==
    UNION {{canvas[c].ops[a] : a \in {b \in 1..Len(canvas[c].ops) : canvas[c].ops[b].pass = p}}
             : c \in CanvasNames}

-----------------------------------------------------------------------------
(* Claims about the photo draw (SpecCrop) and the stickers (SpecSticker) *)

(* C8: at every photo draw of generatePreview and generateFilmStrip the       *)
(* source region given to drawImage is the centred largest sub-rectangle of   *)
(* the Wi x Hi source with the aspect ratio of the Ws x Hs slot, so that      *)
(* sw*Hs = sh*Ws and the region lies inside the source.                       *)
C8_CoverFitSource ==
    drawn.fn # "none" =>
        LET r == drawn.rect
            Ws == drawn.dw
            Hs == drawn.dh
            Wi == source.w
            Hi == source.h
        IN  /\ IF Wi * Hs > Ws * Hi
               THEN /\ FracEq(r.sh, Frac(Hi, 1))
                    /\ FracEq(r.sw, Frac(Hi * Ws, Hs))
                    /\ FracEq(r.sx, Frac(Wi * Hs - Hi * Ws, 2 * Hs))
                    /\ FracEq(r.sy, Frac(0, 1))
               ELSE /\ FracEq(r.sw, Frac(Wi, 1))
                    /\ FracEq(r.sh, Frac(Wi * Hs, Ws))
                    /\ FracEq(r.sx, Frac(0, 1))
                    /\ FracEq(r.sy, Frac(Hi * Ws - Wi * Hs, 2 * Ws))
            /\ FracEq(Frac(r.sw[1] * Hs, r.sw[2]), Frac(r.sh[1] * Ws, r.sh[2]))
            /\ FracLeq(Frac(0, 1), r.sx) /\ FracLeq(Frac(0, 1), r.sy)
            /\ FracLeq(FracAdd(r.sx, r.sw), Frac(Wi, 1))
            /\ FracLeq(FracAdd(r.sy, r.sh), Frac(Hi, 1))

(* C9: after any sequence of add, drag, resize, rotate and delete, the scale  *)
(* of every sticker lies within the bounds of its Home: [0.3, 2.5] in App,    *)
(* [0.5, 2.0] in the Cyber-shot Home.                                         *)
C9_ScaleWithinBounds ==
    \A i \in 1..Len(stickers) :
        ScaleMin(impl) <= stickers[i].scale /\ stickers[i].scale <= ScaleMax(impl)

\* a sticker of App stands at 2.5, which only an enlargement cut at the limit
\* gives (1.0 + k * 0.2 is never 2.5), and its Home holds a second sticker
C9_Witness ==
    /\ impl = "App"
    /\ Len(stickers) = 2
    /\ \E i \in 1..Len(stickers) : stickers[i].scale = ScaleMax(impl)

\* stickers' is stickers with the fields fs of sticker id given new values
OnlyFieldsChanged(id, fs) ==
    /\ Len(stickers') = Len(stickers)
    /\ \A i \in 1..Len(stickers) :
          /\ stickers[i].id # id => stickers'[i] = stickers[i]
          /\ \A f \in {"id", "type", "x", "y", "rotation", "scale"} \ fs :
                stickers'[i][f] = stickers[i][f]

(* C10: sticker mutations are independent: a rotate changes only the rotation *)
(* of its sticker, a move of a drag only its x and y, a resize only its       *)
(* scale; the other fields and the other stickers stay as they were.          *)
C10_MutationsIndependent ==
    [][/\ handleStickerRotate => OnlyFieldsChanged(selectedPlacedSticker, {"rotation"})
       /\ (\E delta \in {-2, 2} : resizeSticker(delta) \/ handleStickerResize(delta))
             => OnlyFieldsChanged(selectedPlacedSticker, {"scale"})
       /\ (\/ \E at \in AppMovePoints : handleMove(at)
           \/ \E d \in CyberMoveDeltas : handleMouseMove(d))
             => OnlyFieldsChanged(dragging.id, {"x", "y"})]_vars

(* C11: generateFilmStrip draws a sticker at relative position (x%, y%)       *)
(* centred at pixel (x/100*W, y/100*H) of the W x H canvas, whatever its      *)
(* scale and rotation and whatever the aspect ratio of the canvas.            *)
C11_StickerCentredAtPercent ==
    ("sticker" \in DOMAIN drawn) =>
        /\ FracEq(drawn.cx, Frac(drawn.sticker.x * drawn.w, 100))
        /\ FracEq(drawn.cy, Frac(drawn.sticker.y * drawn.h, 100))

-----------------------------------------------------------------------------
(* Claims about the session as a whole (SpecSession) *)

\* the ids of the stickers that pass p has drawn among ops, in drawing order
RECURSIVE StickerIdsDrawn(_, _)
StickerIdsDrawn(ops, p) ==
    IF ops = <<>> THEN <<>>
    ELSE (IF Head(ops).pass = p /\ Head(ops).layer = "sticker"
          THEN <<Head(ops).idx>> ELSE <<>>) \o StickerIdsDrawn(Tail(ops), p)

IdSeq(st) == [i \in 1..Len(st) |-> st[i].id]

(* C12: a render pass never modifies the stickers, the photos or the texts;   *)
(* generateFilmStrip works on the sticker collection of the moment it was     *)
(* called, which no later add, move, resize, rotate, delete or reset changes, *)
(* and a finished pass has drawn exactly those stickers, in their order.      *)
C12_PassReadsSnapshot ==
    [][/\ (\E p \in 1..MaxPasses, ok \in BOOLEAN : PhotoLoaded(p, ok) \/ StickerLoaded(p, ok))
             => UNCHANGED <<stickers, photos, footerText>>
       /\ MoveToFinal => passes'[Len(passes')].stickers = stickers
       /\ \A p \in 1..Len(passes) :
             /\ passes'[p].stickers = passes[p].stickers
             /\ passes'[p].text = passes[p].text
             /\ passes'[p].n = passes[p].n
       /\ \A p \in 1..Len(passes') :
             (passes'[p].fn = "generateFilmStrip" /\ passes'[p].pc = "done")
                => StickerIdsDrawn(canvas'[passes'[p].canvas].ops, p)
                      = IdSeq(passes'[p].stickers)]_vars

\* a film strip pass is suspended at the load of a sticker while the
\* collection holds a sticker that was moved since the pass started
C12_Witness ==
    \E p \in 1..Len(passes) :
        /\ passes[p].fn = "generateFilmStrip"
        /\ passes[p].pc = "sticker"
        /\ stickers # <<>>
        /\ stickers # passes[p].stickers

\* no render pass is suspended at an image load
PassesSettled == \A p \in 1..Len(passes) : ~InProgress(p)

(* C13: after reset, once every render pass that was in flight at the reset   *)
(* has settled, the session state is the initial one: photos and stickers     *)
(* empty, footer text empty, layout unset, step = layout, filmStripReady      *)
(* false, preview and film strip data URLs empty.                             *)
C13_ResetRestoresInitialState ==
    (step = "layout" /\ PassesSettled) =>
        /\ photos = <<>>
        /\ stickers = <<>>
        /\ footerText = ""
        /\ layout = "null"
        /\ ~filmStripReady
        /\ filmStripDataUrl = EmptyUrl
        /\ previewDataUrl = EmptyUrl

-----------------------------------------------------------------------------
(* Further claims about the render passes (SpecRender) *)

\* the photo blocks 1..k of pass p
RECURSIVE PhotoBlocks(_, _, _)
PhotoBlocks(im, p, k) ==
    IF k = 0 THEN <<>> ELSE PhotoBlocks(im, p, k - 1) \o PhotoOps(im, p, k)

\* the sticker draws of pass p for the stickers st
StickerDraws(p, st) == [i \in 1..Len(st) |-> Op(p, "sticker", st[i].id)]

\* the draw operations of a call of generateFilmStrip that runs alone from
\* its first to its last line, for n photos and the stickers st
FilmStripOps(im, p, n, st) ==
    OpeningOps(p) \o PhotoBlocks(im, p, n) \o OpsAfterPhotos(im, "generateFilmStrip", p)
        \o StickerDraws(p, st) \o OpsAfterStickers(im, p)

(* C14: whenever filmStripReady is true, the image handed to Download, Print  *)
(* and Share is the result of one completely finished generateFilmStrip pass  *)
(* over the photos and stickers of the session: it holds the draws of that    *)
(* pass, all of them and nothing else.                                        *)
C14_ReadyImageIsFinishedPass ==
    filmStripReady =>
        \E p \in PassIds :
            /\ passes[p].fn = "generateFilmStrip"
            /\ passes[p].pc = "done"
            /\ passes[p].n = Len(photos)
            /\ passes[p].stickers = stickers
            /\ filmStripDataUrl =
                  [width |-> stripWidth, height |-> totalHeight(layout, Len(photos)),
                   ops |-> FilmStripOps(impl, p, Len(photos), stickers)]

(***************************************************************************)
(* Further claims about the camera step (SpecCapture)                      *)
(***************************************************************************)

\* C15: a captured photo carries the retro effect exactly when the retro
\* filter is the selected one at the moment of its capture, and photos already
\* captured keep their pixels whatever happens to the filter afterwards.
C15_FilterAtCaptureTime ==
    [][/\ Len(photos') > Len(photos) =>
              /\ Len(photos') = Len(photos) + 1
              /\ photos'[Len(photos')].retro = (cameraFilter = "retro")
       /\ \A k \in 1..Len(photos) : k <= Len(photos') => photos'[k] = photos[k]]_vars

(***************************************************************************)
(* Claims about the camera step of the App Home (SpecAppCapture)           *)
(***************************************************************************)

\* C16: the photo sequence changes in two ways only: a capture appends exactly
\* one photo at its end and keeps the photos before it, and reset empties it.
C16_PhotosAppendOrEmpty ==
    [][photos' # photos =>
          \/ /\ AppCountdownFire \/ ShutterSingle \/ \E k \in 1..MaxSequences : CountdownFire(k)
             /\ Len(photos') = Len(photos) + 1
             /\ SubSeq(photos', 1, Len(photos)) = photos
          \/ /\ reset \/ ResetSession
             /\ photos' = <<>>]_vars

\* a strip of four photos, each appended to the photos of the render before it
C16_Witness ==
    /\ impl = "App"
    /\ step = "stickers"
    /\ Len(photos) = 4

(***************************************************************************)
(* Further claims about the sticker handlers (SpecSticker)                 *)
(***************************************************************************)

\* C18: the ids of the placed stickers are pairwise distinct after any
\* sequence of adds and deletes, two adds within one clock value included.
C18_StickerIdsDistinct ==
    \A i, j \in 1..Len(stickers) : i # j => stickers[i].id # stickers[j].id

(***************************************************************************)
(* Claims about the layering of the stickers (SpecLayer)                   *)
(***************************************************************************)

\* ids are the clock values of the placements: a sequence is in insertion
\* order when its ids never decrease
InsertionOrder(ids) == \A i, j \in 1..Len(ids) : i < j => ids[i] <= ids[j]

\* C17: the stickers are kept in insertion order: an add appends the new
\* sticker after all existing ones, no drag, resize, rotate or delete brings a
\* sticker before one placed earlier, and generateFilmStrip draws the stickers
\* of its call first-placed first.
C17_InsertionOrderLayering ==
    [][/\ InsertionOrder(IdSeq(stickers'))
       /\ ((\E at \in AppClickPoints : addSticker(at, 5))
              \/ (\E at \in CyberClickPoints : handleStickerClick(at)))
            => /\ Len(stickers') = Len(stickers) + 1
               /\ SubSeq(stickers', 1, Len(stickers)) = stickers
       /\ MoveToFinal => passes'[Len(passes')].stickers = stickers
       /\ \A p \in 1..Len(passes') :
             (passes'[p].fn = "generateFilmStrip" /\ passes'[p].pc = "done")
                => /\ StickerIdsDrawn(canvas'[passes'[p].canvas].ops, p)
                         = IdSeq(passes'[p].stickers)
                   /\ InsertionOrder(StickerIdsDrawn(canvas'[passes'[p].canvas].ops, p))]_vars

\* a finished film strip of two stickers placed at different times, the first
\* of them resized after the second was placed
C17_Witness ==
    \E p \in 1..Len(passes) :
        /\ passes[p].fn = "generateFilmStrip"
        /\ passes[p].pc = "done"
        /\ Len(passes[p].stickers) = 2
        /\ passes[p].stickers[1].id < passes[p].stickers[2].id
        /\ passes[p].stickers[1].scale # 10

(***************************************************************************)
(* Claims about repeated rendering (SpecRerun)                             *)
(***************************************************************************)

\* a composite without the marks that tell the passes apart
Untag(cv) ==
    [width |-> cv.width, height |-> cv.height,
     ops |-> [a \in 1..Len(cv.ops) |-> [layer |-> cv.ops[a].layer, idx |-> cv.ops[a].idx]]]

\* C19: a call of generateFilmStrip that finishes yields a canvas of the size
\* and with the draw operations that the photos, the layout and the stickers
\* determine, whatever the canvas held before the call, and a second call on
\* the same inputs yields the same composite as the first.
C19_RenderIsIdempotent ==
    [][\A p \in 1..Len(passes) :
          (passes[p].fn = "generateFilmStrip" /\ passes[p].pc # "done"
                /\ passes'[p].pc = "done")
             => /\ filmStripDataUrl' =
                      [width |-> stripWidth, height |-> totalHeight(layout, Len(photos)),
                       ops |-> FilmStripOps(impl, p, Len(photos), stickers)]
                /\ filmStripReady => Untag(filmStripDataUrl') = Untag(filmStripDataUrl)]_vars

\* two finished calls on two stickers, the first of them on a canvas that
\* held an earlier composite
C19_Witness ==
    /\ Len(passes) = 2
    /\ \A p \in 1..2 : passes[p].pc = "done"
    /\ Len(stickers) = 2
    /\ canvas["preview"] # BlankCanvas
    /\ filmStripReady

(***************************************************************************)
(* Claims about the step of the session (SpecCapture)                      *)
(***************************************************************************)

\* C20: the step moves only from layout to camera, from camera to stickers,
\* from stickers to final, and from any step to layout; in particular no timer
\* or capture sequence that ends late moves it from final or layout to stickers.
C20_StepTransitions ==
    [][step' # step =>
          \/ step = "layout" /\ step' = "camera"
          \/ step = "camera" /\ step' = "stickers"
          \/ step = "stickers" /\ step' = "final"
          \/ step' = "layout"]_vars

(***************************************************************************)
(* Claims about the retro filter (SpecRetro)                               *)
(***************************************************************************)

\* C21: for every 8-bit pixel the filtered channels lie within 0..255, the
\* red output is at least the red input, the green output at most the green
\* input and the blue output at most the blue input.
C21_RetroWarmTone ==
    filtered.stage = "done" =>
        /\ filtered.r \in Channels /\ filtered.g \in Channels /\ filtered.b \in Channels
        /\ filtered.r >= pixel.r
        /\ filtered.g <= pixel.g
        /\ filtered.b <= pixel.b

(***************************************************************************)
(* Further claims about the camera step of the App Home (SpecAppCapture)   *)
(***************************************************************************)

\* C22: a capture sequence never comes to rest with the countdown at 0: while
\* the countdown shows 0 in the camera step, the 800 ms timer that starts the
\* next countdown is pending, so the sequence goes on to the edit step or to
\* an enabled shutter.
C22_CountdownNeverStuckAtZero ==
    (step = "camera" /\ countdown = 0) => stepTimers > 0

\* C23: the countdown of the App Home takes the values 3, 2, 1, 0 in that
\* order: it starts at 3 only from null (the shutter) or from 0 (the pause
\* between two photos of a strip), never while a countdown is running, the
\* shutter starts one only when no auto-capture is active, each timer lowers it
\* by one, and a photo is captured only by the step that brings it from 1 to 0.
C23_CompleteCountdownBeforeCapture ==
    [][/\ countdown' # countdown =>
             \/ countdown' = 3 /\ countdown \in {-1, 0}
             \/ countdown > 0 /\ countdown' = countdown - 1
             \/ countdown' = -1 /\ (reset \/ countdown = 1)
       /\ Len(photos') > Len(photos) => countdown = 1 /\ countdown' \in {0, -1}
       /\ (countdown' = 3 /\ countdown = -1) => ~isAutoCapturing]_vars

\* the second countdown of a strip is running
C23_Witness ==
    /\ impl = "App"
    /\ isAutoCapturing
    /\ Len(photos) = 1
    /\ countdown = 2

(***************************************************************************)
(* Claims about the camera stream (SpecCapture, SpecAppCapture)            *)
(***************************************************************************)

\* C24: in the camera step of the Cyber-shot Home the camera is running, has
\* reported an error, or is being started: after a flip a getUserMedia call
\* for the new facing mode is under way, so that the shutter becomes enabled
\* again once it resolves.
C24_FlipRestartsCamera ==
    (step = "camera" /\ stream = "none" /\ ~cameraError) => getUserMediaCalls # <<>>

\* C25: a live camera stream is held only while step = camera: in the layout,
\* edit and final steps stream is null.
C25_StreamOnlyInCameraStep ==
    stream # "none" => step = "camera"

(***************************************************************************)
(* Further claims about the sticker handlers (SpecSticker)                 *)
(***************************************************************************)

\* C26: in the Cyber-shot Home a mousemove of a drag works on the latest
\* sticker collection: it keeps every sticker that is there, brings none back,
\* and keeps the scale and the rotation that each sticker has now.
C26_DragUsesLatestStickers ==
    [][(\E d \in CyberMoveDeltas : handleMouseMove(d)) =>
          /\ IdSeq(stickers') = IdSeq(stickers)
          /\ \A i \in 1..Len(stickers) :
                /\ stickers'[i].scale = stickers[i].scale
                /\ stickers'[i].rotation = stickers[i].rotation]_vars

\* C27: every placed sticker stays inside the bounds its drag handler
\* enforces: 0..100 percent for x and y in App, and 0..600 - 80 * scale pixels
\* for x and y in the Cyber-shot Home, also after a resize.
C27_StickerWithinDragBounds ==
    \A i \in 1..Len(stickers) :
        LET s == stickers[i]
            hi == IF impl = "App" THEN 100 ELSE 600 - 8 * s.scale
        IN  /\ 0 <= s.x /\ s.x <= hi
            /\ 0 <= s.y /\ s.y <= hi

\* C28: selectedPlacedSticker is null or the id of a sticker that is in the
\* collection.
C28_SelectionIsPlaced ==
    selectedPlacedSticker = 0 \/ selectedPlacedSticker \in Ids(stickers)

\* the first of two stickers placed at different times is the selected one
C28_Witness ==
    /\ Len(stickers) = 2
    /\ stickers[1].id # stickers[2].id
    /\ selectedPlacedSticker = stickers[1].id

(***************************************************************************)
(* Claims about the preview and the film strip (SpecPair)                  *)
(***************************************************************************)

\* the draw operations of a composite that are not sticker draws
RECURSIVE NonSticker(_)
NonSticker(ops) ==
    IF ops = <<>> THEN <<>>
    ELSE (IF Head(ops).layer = "sticker" THEN <<>>
          ELSE <<[layer |-> Head(ops).layer, idx |-> Head(ops).idx]>>)
            \o NonSticker(Tail(ops))

\* C29: for the same photos, layout and texts a finished generatePreview and a
\* finished generateFilmStrip have canvases of the same width and height and
\* the same draw operations apart from the sticker draws, in the same order.
C29_FilmStripIsPreviewPlusStickers ==
    (previewDataUrl # EmptyUrl /\ filmStripReady) =>
        /\ filmStripDataUrl.width = previewDataUrl.width
        /\ filmStripDataUrl.height = previewDataUrl.height
        /\ NonSticker(filmStripDataUrl.ops) = NonSticker(previewDataUrl.ops)

\* a preview and a film strip of four photos and two stickers
C29_Witness ==
    /\ previewDataUrl # EmptyUrl
    /\ filmStripReady
    /\ Len(photos) = 4
    /\ Len(stickers) = 2
    /\ Len(filmStripDataUrl.ops) = Len(previewDataUrl.ops) + 2

-----------------------------------------------------------------------------
(* Claims about the Y2K Home (SpecY2K) *)

\* C30: once the camera of the Y2K Home is closed with at least one photo
\* captured, a film strip render runs on the displayed canvas and
\* filmStripReady becomes true: a state with the film strip shown and no
\* generateFilmStrip call past its guard has filmStripReady set.
C30_DoneRendersFilmStrip ==
    (impl = "Y2K" /\ Y2KFilmStripMounted(photos, step = "camera") /\ passes = <<>>)
        => filmStripReady

=============================================================================
